---- MODULE Spec2Model ----
(***************************************************************************)
(* Model of the durablews WebSocket client (src/src/client.ts).            *)
(*                                                                         *)
(* The client owns the closure variable ws (the most recently constructed  *)
(* socket), the shared outbound queue $messageQueue, the reconnect timers  *)
(* it has handed to setTimeout, and the idle timer.  The sockets are the   *)
(* host's WebSocket objects: their readyState follows the WebSocket        *)
(* standard (CONNECTING -> OPEN -> CLOSING -> CLOSED), the open event is   *)
(* dispatched in the task that sets OPEN, and the close event in the task  *)
(* that sets CLOSED.  When the connection failed, that task dispatches an  *)
(* error event first; listeners of the error event (and the microtasks     *)
(* they release, such as a rejected isReady()) run between the error and   *)
(* the close event, so caller operations may be interleaved there.         *)
(***************************************************************************)
EXTENDS Integers, Sequences, FiniteSets, TLC

\* ---------------------------------------------------------------- bounds
\* config.maxQueueSize and config.maxReconnectAttempts of the modelled client
maxQueueSize == 2
maxReconnectAttempts == 2
\* number of sockets the client may construct, number of messages sent
MaxSockets == 3
MaxMsgs == 3
\* number of sockets constructed where no message is sent (SpecReconnect)
MaxChainSockets == 4
\* largest config.maxReconnectAttempts a client is constructed with
MaxConfigAttempts == 12
\* number of message listeners, and of registrations listeners.message holds
\* at a time
MaxListeners == 2
MaxRegistered == 3
\* number of calls of isReady
MaxPromises == 1
\* number of calls of createClient
MaxCalls == 3
\* config.idleTimeout in clock ticks, the last clock value, the number of
\* activity events, the number of idle listeners registered at a time
idleTimeoutDuration == 2
MaxTime == 6
MaxStimuli == 3
MaxIdleListeners == 2

\* ------------------------------------------------------------- constants
NormalClosure == 1000
\* close codes of a closing handshake (1005: close() called without a code)
CleanCodes == {1000, 1005}
\* close code of a failed connection
FailureCodes == {1006}

Messages == 1..MaxMsgs

VARIABLES
    sockets,      \* the sockets constructed so far: [rs, attempt, sent]
    ws,           \* index of the current socket in sockets, 0 for null
    queue,        \* $messageQueue
    timers,       \* pending reconnect timers: [from, attempt, delay]
    closeTask,    \* socket whose error event was dispatched and whose close
                  \* event is next in the same task, 0 when none
    nextMsg,      \* identity of the next message handed to send()
    disconnected, \* disconnect() was called and connect() not since
    last,         \* the operation that led to this state
    clock,        \* the host's time
    idleTimers,   \* pending timeouts of resetIdleTimer: [id, due]
    idleTimeout,  \* the handle resetIdleTimer stored last
    timerSeq,     \* number of timeouts resetIdleTimer has created
    stimulusAt,   \* time of the last call of resetIdleTimer
    listenersIdle,\* listeners.idle
    idleSince,    \* idle publications since the last call of resetIdleTimer
    idleCalls,    \* the listeners the last idle publication invoked
    cfgAttempts,  \* config.maxReconnectAttempts, 0 when not given
    schedule,     \* the reconnectTimeouts of that configuration
    built,        \* whether reconnectTimeouts was computed
    lookedUp,     \* the last entry of reconnectTimeouts read: [index, delay]
    listenersMessage, \* listeners.message
    lastFrame,    \* the last run of ws.onmessage: the frame, the registry it
                  \* found, the listener calls it made
    promises,     \* the futures isReady returned: the readyState it found,
                  \* the socket it put its listeners on, pending or settled
    instance,     \* the module variable instance: 0 for null, else the call of
                  \* createClient that built the client
    token,        \* $token.get() is set
    createCalls   \* the calls of createClient: where each one is, what it
                  \* created, what it returned

connVars == <<sockets, ws, queue, timers, closeTask, nextMsg, disconnected,
              last>>
idleVars == <<clock, idleTimers, idleTimeout, timerSeq, stimulusAt,
              listenersIdle, idleSince, idleCalls>>
backoffVars == <<cfgAttempts, schedule, built, lookedUp>>
busVars == <<listenersMessage, lastFrame>>
readyVars == <<promises>>
createVars == <<instance, token, createCalls>>
extVars == <<backoffVars, busVars, readyVars, createVars>>
vars == <<connVars, idleVars, extVars>>

\* ----------------------------------------------------------- pure parts
RECURSIVE Pow2(_)
Pow2(i) == IF i = 0 THEN 1 ELSE 2 * Pow2(i - 1)

ReconnectTimeoutsMutOffByOne(n) == [i \in 1..n |-> Pow2(i) * 1000]

\* Array.from({ length: n }, (_, i) => Math.pow(2, i) * 1000); entry i + 1
\* of the sequence is entry i of the array
ReconnectTimeoutsFor(n) == [i \in 1..n |-> Pow2(i - 1) * 1000]

\* config.maxReconnectAttempts || 5
MaxAttemptsOf(cfg) == IF cfg = 0 THEN 5 ELSE cfg

\* reconnectTimeouts[i + 1] is the source's reconnectTimeouts[i]
reconnectTimeouts == ReconnectTimeoutsFor(maxReconnectAttempts)

\* ws?.readyState, "NONE" standing for undefined
ReadyState(socks, w) == IF w = 0 THEN "NONE" ELSE socks[w].rs

\* the outbound queue store ($queuePush, $queueShift, $queueUnshift of
\* ../../stores): push appends, shift removes the oldest entry, unshift puts
\* an entry back at the front; queueFront is the entry shift returns
queuePush(q, m) == Append(q, m)
queueShift(q) == IF q = <<>> THEN q ELSE Tail(q)
queueFront(q) == q[1]
queueUnshift(q, m) == <<m>> \o q

\* last: op the operation, sock the socket it concerned, rs the readiness of
\* ws the operation saw, code the close code, qBefore the queue it found,
\* wrote what a drain wrote, failed whether the drain stopped on a failed
\* write, pub the event kind published to the listeners
NoOp == [op |-> "init", sock |-> 0, rs |-> "NONE", code |-> 0,
         qBefore |-> <<>>, wrote |-> <<>>, failed |-> FALSE, pub |-> "none"]

NoLookup == [index |-> -1, delay |-> 0]

BackoffInit ==
    /\ cfgAttempts = maxReconnectAttempts
    /\ schedule = reconnectTimeouts
    /\ built = TRUE
    /\ lookedUp = NoLookup

\* the state createClient leaves with autoConnect false: no socket, and the
\* idle timer armed by the call of resetIdleTimer in line 56
ClientInit ==
    /\ clock = 0
    /\ idleTimers = {[id |-> 1, due |-> idleTimeoutDuration]}
    /\ idleTimeout = 1
    /\ timerSeq = 1
    /\ stimulusAt = 0
    /\ listenersIdle = <<>>
    /\ idleSince = 0
    /\ idleCalls = <<>>
    /\ sockets = <<>>
    /\ ws = 0
    /\ queue = <<>>
    /\ timers = {}
    /\ closeTask = 0
    /\ nextMsg = 1
    /\ disconnected = FALSE
    /\ last = NoOp

NoFrame == [op |-> "none", frame |-> [text |-> FALSE, raw |-> ""],
            start |-> <<>>, calls |-> <<>>, passes |-> 0, caught |-> 0,
            uncaught |-> 0]

Calls == 1..MaxCalls

NotCalled == [pc |-> "idle", autoConnect |-> FALSE, created |-> FALSE,
              connected |-> FALSE, result |-> 0]

\* a single call of createClient has built the client, with autoConnect
\* false
CreatedInit ==
    /\ instance = 1
    /\ token = TRUE
    /\ createCalls = [c \in Calls |->
                  IF c = 1
                  THEN [NotCalled EXCEPT !.pc = "returned", !.created = TRUE,
                                         !.result = 1]
                  ELSE NotCalled]

BusInit ==
    /\ listenersMessage = <<>>
    /\ lastFrame = NoFrame
    /\ promises = <<>>
    /\ CreatedInit

Init ==
    /\ BackoffInit
    /\ BusInit
    /\ ClientInit

\* ------------------------------------------------------------ reconnect
\* new WebSocket(...): the socket starts CONNECTING and becomes ws
reconnect(attempt) ==
    /\ sockets' = Append(sockets, [rs |-> "CONNECTING", attempt |-> attempt,
                                   sent |-> <<>>])
    /\ ws' = Len(sockets) + 1

\* ----------------------------------------------------------------- send
SendMutNoEvict(m) ==
    LET rs == ReadyState(sockets, ws) IN
    IF rs = "OPEN"
    THEN /\ sockets' = [sockets EXCEPT ![ws].sent = Append(@, m)]
         /\ queue' = queue
    ELSE IF rs # "CLOSED"
    THEN /\ queue' = queuePush(queue, m)
         /\ sockets' = sockets
    ELSE UNCHANGED <<sockets, queue>>

SendMutNoClosedCheck(m) ==
    LET rs == ReadyState(sockets, ws) IN
    IF rs = "OPEN"
    THEN /\ sockets' = [sockets EXCEPT ![ws].sent = Append(@, m)]
         /\ queue' = queue
    ELSE /\ queue' = LET q == queuePush(queue, m) IN
                     IF Len(q) > maxQueueSize THEN queueShift(q) ELSE q
         /\ sockets' = sockets

SendMutQueueWhenOpen(m) ==
    LET rs == ReadyState(sockets, ws) IN
    IF rs # "CLOSED"
    THEN /\ queue' = LET q == queuePush(queue, m) IN
                     IF Len(q) > maxQueueSize THEN queueShift(q) ELSE q
         /\ sockets' = sockets
    ELSE UNCHANGED <<sockets, queue>>

send(m) ==
    LET rs == ReadyState(sockets, ws) IN
    IF rs = "OPEN"
    THEN /\ sockets' = [sockets EXCEPT ![ws].sent = Append(@, m)]
         /\ queue' = queue
    ELSE IF rs # "CLOSED"
    THEN /\ queue' = LET q == queuePush(queue, m) IN
                     IF Len(q) > maxQueueSize THEN queueShift(q) ELSE q
         /\ sockets' = sockets
    ELSE UNCHANGED <<sockets, queue>>

Send ==
    /\ nextMsg <= MaxMsgs
    /\ send(nextMsg)
    /\ nextMsg' = nextMsg + 1
    /\ last' = [NoOp EXCEPT !.op = "send", !.sock = ws,
                            !.rs = ReadyState(sockets, ws),
                            !.qBefore = queue]
    /\ UNCHANGED <<ws, timers, closeTask, disconnected,
                 idleVars, extVars>>

\* -------------------------------------------------------------- connect
connectMutOpensWhenClosing ==
    IF ReadyState(sockets, ws) \notin {"OPEN", "CONNECTING"}
    THEN reconnect(0)
    ELSE UNCHANGED <<sockets, ws>>

connect ==
    IF ws = 0 \/ ReadyState(sockets, ws) = "CLOSED"
    THEN reconnect(0)
    ELSE UNCHANGED <<sockets, ws>>

\* connect() called while fewer than n sockets were constructed
ConnectWithin(n) ==
    /\ Len(sockets) < n
    /\ connect
    /\ disconnected' = FALSE
    /\ last' = [NoOp EXCEPT !.op = "connect", !.sock = ws,
                            !.rs = ReadyState(sockets, ws)]
    /\ UNCHANGED <<queue, timers, closeTask, nextMsg,
                 idleVars, extVars>>

Connect == ConnectWithin(MaxSockets)

\* ----------------------------------------------------------- disconnect
\* WebSocket.close(): CONNECTING or OPEN becomes CLOSING, otherwise nothing
SocketClose(rs) == IF rs \in {"CONNECTING", "OPEN"} THEN "CLOSING" ELSE rs

disconnect ==
    IF ws # 0
    THEN sockets' = [sockets EXCEPT ![ws].rs = SocketClose(@)]
    ELSE UNCHANGED sockets

Disconnect ==
    /\ disconnect
    /\ disconnected' = TRUE
    /\ last' = [NoOp EXCEPT !.op = "disconnect", !.sock = ws,
                            !.rs = ReadyState(sockets, ws)]
    /\ UNCHANGED <<ws, queue, timers, closeTask, nextMsg,
                 idleVars, extVars>>

\* --------------------------------------------------------------- onopen
\* the while loop of ws.onopen; open is ws?.readyState === WebSocket.OPEN,
\* which no step of the loop changes
RECURSIVE DrainMutDropFailed(_, _, _)
DrainMutDropFailed(q, wrote, open) ==
    IF Len(q) = 0
    THEN [queue |-> q, wrote |-> wrote, failed |-> FALSE]
    ELSE LET message == queueFront(q)
             rest == queueShift(q)
         IN  IF open
             THEN DrainMutDropFailed(rest, Append(wrote, message), open)
             ELSE [queue |-> rest, wrote |-> wrote, failed |-> TRUE]

RECURSIVE DrainMutOnlyFirst(_, _, _)
DrainMutOnlyFirst(q, wrote, open) ==
    IF Len(q) = 0
    THEN [queue |-> q, wrote |-> wrote, failed |-> FALSE]
    ELSE LET message == queueFront(q)
             rest == queueShift(q)
         IN  IF open
             THEN [queue |-> rest, wrote |-> Append(wrote, message),
                   failed |-> FALSE]
             ELSE [queue |-> queueUnshift(rest, message), wrote |-> wrote,
                   failed |-> TRUE]

RECURSIVE DrainMutRequeueLast(_, _, _)
DrainMutRequeueLast(q, wrote, open) ==
    IF Len(q) = 0
    THEN [queue |-> q, wrote |-> wrote, failed |-> FALSE]
    ELSE LET message == queueFront(q)
             rest == queueShift(q)
         IN  IF open /\ rest # <<>>
             THEN DrainMutRequeueLast(rest, Append(wrote, message), open)
             ELSE [queue |-> queueUnshift(rest, message),
                   wrote |-> IF open THEN Append(wrote, message) ELSE wrote,
                   failed |-> TRUE]

RECURSIVE DrainLoop(_, _, _)
DrainLoop(q, wrote, open) ==
    IF Len(q) = 0
    THEN [queue |-> q, wrote |-> wrote, failed |-> FALSE]
    ELSE LET message == queueFront(q)
             rest == queueShift(q)
         IN  IF open
             THEN DrainLoop(rest, Append(wrote, message), open)
             ELSE [queue |-> queueUnshift(rest, message), wrote |-> wrote,
                   failed |-> TRUE]

\* the listeners isReady put on socket s with {once: true}: the open event
\* resolves the pending futures, the error event rejects them
SettleMutNotOnce(ps, s, event) ==
    [i \in 1..Len(ps) |->
        IF ps[i].on = s
        THEN [ps[i] EXCEPT !.state = IF event = "open" THEN "resolved"
                                                        ELSE "rejected"]
        ELSE ps[i]]

Settle(ps, s, event) ==
    [i \in 1..Len(ps) |->
        IF ps[i].on = s /\ ps[i].state = "pending"
        THEN [ps[i] EXCEPT !.state = IF event = "open" THEN "resolved"
                                                        ELSE "rejected"]
        ELSE ps[i]]

\* the host sets socket s to OPEN and dispatches its open event: ws.onopen
\* drains the queue into the current socket ws and publishes "open"
SocketOpens(s) ==
    /\ closeTask = 0
    /\ sockets[s].rs = "CONNECTING"
    /\ LET opened == [sockets EXCEPT ![s].rs = "OPEN"]
           d == DrainLoop(queue, <<>>, ReadyState(opened, ws) = "OPEN")
       IN  /\ queue' = d.queue
           /\ sockets' = [opened EXCEPT ![ws].sent = @ \o d.wrote]
           /\ last' = [NoOp EXCEPT !.op = "open", !.sock = s,
                                   !.rs = ReadyState(opened, ws),
                                   !.qBefore = queue,
                                   !.wrote = d.wrote, !.failed = d.failed,
                                   !.pub = "open"]
    /\ promises' = Settle(promises, s, "open")
    /\ UNCHANGED <<ws, timers, closeTask, nextMsg, disconnected,
                 idleVars, backoffVars, busVars, createVars>>

\* -------------------------------------------------------------- onclose
\* the timers ws.onclose of socket s hands to setTimeout
ScheduledMutIgnoreCode(socks, s, code) ==
    IF /\ ws # 0
       /\ ReadyState(socks, ws) # "CLOSED"
       /\ socks[s].attempt < maxReconnectAttempts - 1
    THEN {[from |-> s, attempt |-> socks[s].attempt + 1,
           delay |-> reconnectTimeouts[socks[s].attempt + 1]]}
    ELSE {}

ScheduledMutNoCap(socks, s, code) ==
    IF /\ ws # 0
       /\ ReadyState(socks, ws) # "CLOSED"
       /\ code # NormalClosure
    THEN {[from |-> s, attempt |-> socks[s].attempt + 1,
           delay |-> Pow2(socks[s].attempt) * 1000]}
    ELSE {}

Scheduled(socks, s, code) ==
    IF /\ ws # 0
       /\ ReadyState(socks, ws) # "CLOSED"
       /\ socks[s].attempt < maxReconnectAttempts - 1
       /\ code # NormalClosure
    THEN {[from |-> s, attempt |-> socks[s].attempt + 1,
           delay |-> reconnectTimeouts[socks[s].attempt + 1]]}
    ELSE {}

onclose(socks, s, code) ==
    /\ timers' = timers \cup Scheduled(socks, s, code)
    /\ last' = [NoOp EXCEPT !.op = "close", !.sock = s,
                            !.rs = ReadyState(socks, ws), !.code = code,
                            !.pub = "close"]

\* the closing handshake of socket s completes: the host sets CLOSED and
\* dispatches the close event in the same task
SocketClosesCleanly(s, code) ==
    /\ closeTask = 0
    /\ sockets[s].rs \in {"OPEN", "CLOSING"}
    /\ sockets' = [sockets EXCEPT ![s].rs = "CLOSED"]
    /\ onclose(sockets', s, code)
    /\ UNCHANGED <<ws, queue, closeTask, nextMsg, disconnected,
                 idleVars, extVars>>

\* the connection of socket s fails: the host sets CLOSED and dispatches the
\* error event (ws.onerror publishes it); the close event follows
SocketFails(s) ==
    /\ closeTask = 0
    /\ sockets[s].rs \in {"CONNECTING", "OPEN", "CLOSING"}
    /\ sockets' = [sockets EXCEPT ![s].rs = "CLOSED"]
    /\ closeTask' = s
    /\ last' = [NoOp EXCEPT !.op = "error", !.sock = s,
                            !.rs = ReadyState(sockets', ws), !.pub = "error"]
    /\ promises' = Settle(promises, s, "error")
    /\ UNCHANGED <<ws, queue, timers, nextMsg, disconnected,
                 idleVars, backoffVars, busVars, createVars>>

CloseAfterError(code) ==
    /\ closeTask # 0
    /\ onclose(sockets, closeTask, code)
    /\ closeTask' = 0
    /\ UNCHANGED <<sockets, ws, queue, nextMsg, disconnected,
                 idleVars, extVars>>

\* ---------------------------------------------------------------- timer
\* a reconnect timer expires: () => reconnect(attempt + 1)
TimerFiresWithin(t, n) ==
    /\ closeTask = 0
    /\ Len(sockets) < n
    /\ reconnect(t.attempt)
    /\ timers' = timers \ {t}
    /\ last' = [NoOp EXCEPT !.op = "timer", !.sock = t.from,
                            !.rs = ReadyState(sockets, ws)]
    /\ UNCHANGED <<queue, closeTask, nextMsg, disconnected,
                 idleVars, extVars>>

ReconnectTimerFires(t) == TimerFiresWithin(t, MaxSockets)

Next ==
    \/ Send
    \/ Connect
    \/ Disconnect
    \/ \E s \in 1..Len(sockets) : SocketOpens(s)
    \/ \E s \in 1..Len(sockets), code \in CleanCodes :
            SocketClosesCleanly(s, code)
    \/ \E s \in 1..Len(sockets) : SocketFails(s)
    \/ \E code \in FailureCodes : CloseAfterError(code)
    \/ \E t \in timers : ReconnectTimerFires(t)

Spec == Init /\ [][Next]_vars

\* the connection manager with no message sent: connect, disconnect, the
\* socket events and the reconnect timers, up to MaxChainSockets sockets
ConnectChain == ConnectWithin(MaxChainSockets)

ChainTimerFires(t) == TimerFiresWithin(t, MaxChainSockets)

NextReconnect ==
    \/ ConnectChain
    \/ Disconnect
    \/ \E s \in 1..Len(sockets) : SocketOpens(s)
    \/ \E s \in 1..Len(sockets), code \in CleanCodes :
            SocketClosesCleanly(s, code)
    \/ \E s \in 1..Len(sockets) : SocketFails(s)
    \/ \E code \in FailureCodes : CloseAfterError(code)
    \/ \E t \in timers : ChainTimerFires(t)

SpecReconnect == Init /\ [][NextReconnect]_vars

\* ========================================================== idle monitor
\* listeners.idle.forEach((listener) => listener())
PublishIdle(ls) == ls

resetIdleTimerMutNoClear ==
    /\ idleTimers' = idleTimers \cup
                       {[id |-> timerSeq + 1,
                         due |-> clock + idleTimeoutDuration]}
    /\ idleTimeout' = timerSeq + 1
    /\ timerSeq' = timerSeq + 1

\* clearTimeout(idleTimeout); idleTimeout = setTimeout(..., idleTimeoutDuration)
resetIdleTimer ==
    /\ idleTimers' = {t \in idleTimers : t.id # idleTimeout} \cup
                       {[id |-> timerSeq + 1,
                         due |-> clock + idleTimeoutDuration]}
    /\ idleTimeout' = timerSeq + 1
    /\ timerSeq' = timerSeq + 1

\* a mousemove, keydown or mousedown event of the window
ActivityEvent ==
    /\ timerSeq < MaxStimuli
    /\ resetIdleTimer
    /\ stimulusAt' = clock
    /\ idleSince' = 0
    /\ UNCHANGED <<clock, listenersIdle, idleCalls, connVars, extVars>>

\* a timeout of resetIdleTimer expires; it is not set again
IdleTimerFires(t) ==
    /\ t.due <= clock
    /\ idleTimers' = idleTimers \ {t}
    /\ idleCalls' = PublishIdle(listenersIdle)
    /\ idleSince' = idleSince + 1
    /\ UNCHANGED <<clock, idleTimeout, timerSeq, stimulusAt, listenersIdle,
                   connVars, extVars>>

\* time passes; a timeout that is due runs first
Tick ==
    /\ clock < MaxTime
    /\ \A t \in idleTimers : t.due > clock
    /\ clock' = clock + 1
    /\ UNCHANGED <<idleTimers, idleTimeout, timerSeq, stimulusAt,
                   listenersIdle, idleSince, idleCalls, connVars, extVars>>

\* onIdle(listener)
onIdle(l) ==
    /\ Len(listenersIdle) < MaxIdleListeners
    /\ listenersIdle' = Append(listenersIdle, l)
    /\ UNCHANGED <<clock, idleTimers, idleTimeout, timerSeq, stimulusAt,
                   idleSince, idleCalls, connVars, extVars>>

\* listeners.idle.indexOf(listener), 0 standing for -1
IndexOf(ls, l) ==
    IF \E i \in 1..Len(ls) : ls[i] = l
    THEN CHOOSE i \in 1..Len(ls) :
            ls[i] = l /\ \A j \in 1..(i - 1) : ls[j] # l
    ELSE 0

\* the function onIdle(listener) returned
offIdle(l) ==
    /\ IndexOf(listenersIdle, l) # 0
    /\ listenersIdle' =
          [i \in 1..(Len(listenersIdle) - 1) |->
              IF i < IndexOf(listenersIdle, l)
              THEN listenersIdle[i] ELSE listenersIdle[i + 1]]
    /\ UNCHANGED <<clock, idleTimers, idleTimeout, timerSeq, stimulusAt,
                   idleSince, idleCalls, connVars, extVars>>

NextIdle ==
    \/ ActivityEvent
    \/ \E t \in idleTimers : IdleTimerFires(t)
    \/ Tick
    \/ \E l \in 1..MaxIdleListeners : onIdle(l)
    \/ \E l \in 1..MaxIdleListeners : offIdle(l)

SpecIdle == Init /\ [][NextIdle]_vars

\* ====================================================== backoff schedule
\* createClient is called with config.maxReconnectAttempts = cfgAttempts
InitBackoff ==
    /\ ClientInit
    /\ BusInit
    /\ cfgAttempts \in 0..MaxConfigAttempts
    /\ schedule = <<>>
    /\ built = FALSE
    /\ lookedUp = NoLookup

\* lines 33-37 of createClient
BuildSchedule ==
    /\ ~built
    /\ schedule' = ReconnectTimeoutsFor(MaxAttemptsOf(cfgAttempts))
    /\ built' = TRUE
    /\ UNCHANGED <<cfgAttempts, lookedUp, connVars, idleVars, busVars,
                   readyVars, createVars>>

\* reconnectTimeouts[attempt], as ws.onclose reads it
ReadDelay(attempt) ==
    /\ built
    /\ attempt < Len(schedule)
    /\ lookedUp' = [index |-> attempt, delay |-> schedule[attempt + 1]]
    /\ UNCHANGED <<cfgAttempts, schedule, built, connVars, idleVars,
                   busVars, readyVars, createVars>>

NextBackoff ==
    \/ BuildSchedule
    \/ \E attempt \in 0..MaxConfigAttempts : ReadDelay(attempt)

SpecBackoff == InitBackoff /\ [][NextBackoff]_vars

\* ============================================================ event bus
Listeners == 1..MaxListeners

\* what a listener does when invoked: nothing more (Plain), raise (Throws),
\* or call the unsubscribe function of listener k (Unsubscribes(k))
Plain == [kind |-> "plain", target |-> 0]
Throws == [kind |-> "throws", target |-> 0]
Unsubscribes(k) == [kind |-> "unsubscribes", target |-> k]
Behaviours == {Plain, Throws} \cup {Unsubscribes(k) : k \in Listeners}

\* the frames a socket delivers: text frames that are JSON, that are not,
\* the empty text frame, and a binary frame
Frames == {[text |-> TRUE, raw |-> "7"], [text |-> TRUE, raw |-> "hi"],
           [text |-> TRUE, raw |-> ""], [text |-> FALSE, raw |-> "blob"]}

\* JSON.parse(event.data): a binary payload is converted to a string such as
\* "[object Blob]" first, which is no JSON
JsonParse(frame) ==
    IF frame.text /\ frame.raw = "7"
    THEN [ok |-> TRUE, value |-> "number 7"]
    ELSE [ok |-> FALSE, value |-> "SyntaxError"]

\* (event?.data && typeof event?.data === "string") ||
\* event?.data instanceof String
IsTextual(frame) == frame.text /\ frame.raw # ""

Count(ls, l) == Cardinality({i \in 1..Len(ls) : ls[i] = l})

RemoveAt(ls, idx) ==
    [i \in 1..(Len(ls) - 1) |-> IF i < idx THEN ls[i] ELSE ls[i + 1]]

RemoveFirstMutSkipsHead(ls, l) ==
    IF IndexOf(ls, l) > 1 THEN RemoveAt(ls, IndexOf(ls, l)) ELSE ls

\* the function onMessage(listener) returned: indexOf, then splice(index, 1)
RemoveFirst(ls, l) ==
    IF IndexOf(ls, l) # 0 THEN RemoveAt(ls, IndexOf(ls, l)) ELSE ls

\* listeners.message.forEach((listener) => listener(arg)) from index k on:
\* forEach visits the indices below the length it found at its start and
\* reads the array as it is when it gets to an index
RECURSIVE ForEach(_, _, _, _, _, _)
ForEach(ls, k, len, beh, arg, calls) ==
    IF k > len
    THEN [ls |-> ls, calls |-> calls, thrower |-> 0]
    ELSE IF k > Len(ls)
    THEN ForEach(ls, k + 1, len, beh, arg, calls)
    ELSE LET l == ls[k]
             b == beh[l]
             call == [listener |-> l, arg |-> arg,
                      unsub |-> b.target]
         IN  IF b = Throws
             THEN [ls |-> ls, calls |-> Append(calls, call), thrower |-> l]
             ELSE IF b = Plain
             THEN ForEach(ls, k + 1, len, beh, arg, Append(calls, call))
             ELSE ForEach(RemoveFirst(ls, b.target), k + 1, len, beh, arg,
                          Append(calls, call))

\* the catch block of ws.onmessage, entered with the registry ls, after the
\* calls made so far
CatchBlock(frame, ls, beh, calls, passes, caught) ==
    IF IsTextual(frame)
    THEN LET p == ForEach(ls, 1, Len(ls), beh,
                          [kind |-> "wrapper", value |-> frame.raw], calls)
         IN  [ls |-> p.ls, calls |-> p.calls, passes |-> passes + 1,
              caught |-> caught, uncaught |-> p.thrower]
    ELSE [ls |-> ls, calls |-> calls, passes |-> passes, caught |-> caught,
          uncaught |-> 0]

\* ws.onmessage
onmessage(frame, ls, beh) ==
    LET parsed == JsonParse(frame) IN
    IF parsed.ok
    THEN LET p == ForEach(ls, 1, Len(ls), beh,
                          [kind |-> "parsed", value |-> parsed.value], <<>>)
         IN  IF p.thrower = 0
             THEN [ls |-> p.ls, calls |-> p.calls, passes |-> 1,
                   caught |-> 0, uncaught |-> 0]
             ELSE CatchBlock(frame, p.ls, beh, p.calls, 1, p.thrower)
    ELSE CatchBlock(frame, ls, beh, <<>>, 0, 0)

\* an open socket delivers a frame; beh is what each listener does when it
\* is invoked for this frame
SocketMessage(s, frame, beh) ==
    /\ closeTask = 0
    /\ sockets[s].rs = "OPEN"
    /\ LET r == onmessage(frame, listenersMessage, beh)
       IN  /\ listenersMessage' = r.ls
           /\ lastFrame' = [op |-> "message", frame |-> frame,
                            start |-> listenersMessage, calls |-> r.calls,
                            passes |-> r.passes, caught |-> r.caught,
                            uncaught |-> r.uncaught]
    /\ UNCHANGED <<connVars, idleVars, backoffVars, readyVars, createVars>>

\* onMessage(listener)
onMessage(l) ==
    /\ Len(listenersMessage) < MaxRegistered
    /\ listenersMessage' = Append(listenersMessage, l)
    /\ lastFrame' = NoFrame
    /\ UNCHANGED <<connVars, idleVars, backoffVars, readyVars, createVars>>

\* the function onMessage(listener) returned, called outside a publication
offMessage(l) ==
    /\ IndexOf(listenersMessage, l) # 0
    /\ listenersMessage' = RemoveFirst(listenersMessage, l)
    /\ lastFrame' = NoFrame
    /\ UNCHANGED <<connVars, idleVars, backoffVars, readyVars, createVars>>

\* the listeners that matter to a frame are the registered ones
BehavioursOf(ls) ==
    {beh \in [Listeners -> Behaviours] :
        \A l \in Listeners : Count(ls, l) = 0 => beh[l] = Plain}

NextBus ==
    \/ \E s \in 1..Len(sockets), frame \in Frames,
          beh \in BehavioursOf(listenersMessage) :
            SocketMessage(s, frame, beh)
    \/ \E l \in Listeners : onMessage(l)
    \/ \E l \in Listeners : offMessage(l)

\* a client whose socket was opened: connect(), then the open event
InitBus ==
    /\ BackoffInit
    /\ BusInit
    /\ clock = 0
    /\ idleTimers = {[id |-> 1, due |-> idleTimeoutDuration]}
    /\ idleTimeout = 1
    /\ timerSeq = 1
    /\ stimulusAt = 0
    /\ listenersIdle = <<>>
    /\ idleSince = 0
    /\ idleCalls = <<>>
    /\ sockets = <<[rs |-> "OPEN", attempt |-> 0, sent |-> <<>>]>>
    /\ ws = 1
    /\ queue = <<>>
    /\ timers = {}
    /\ closeTask = 0
    /\ nextMsg = 1
    /\ disconnected = FALSE
    /\ last = [NoOp EXCEPT !.op = "open", !.sock = 1, !.rs = "OPEN",
                           !.pub = "open"]

SpecBus == InitBus /\ [][NextBus]_vars

\* ============================================================== isReady
\* isReady(): resolved at once on an OPEN socket; otherwise the open and
\* error listeners go on the socket ws names now, on none if ws is null
isReady ==
    /\ Len(promises) < MaxPromises
    /\ promises' = Append(promises,
            IF ReadyState(sockets, ws) = "OPEN"
            THEN [at |-> "OPEN", on |-> 0, state |-> "resolved"]
            ELSE [at |-> ReadyState(sockets, ws), on |-> ws,
                  state |-> "pending"])
    /\ UNCHANGED <<connVars, idleVars, backoffVars, busVars, createVars>>

NextReady ==
    \/ isReady
    \/ Connect
    \/ Disconnect
    \/ \E s \in 1..Len(sockets) : SocketOpens(s)
    \/ \E s \in 1..Len(sockets), code \in CleanCodes :
            SocketClosesCleanly(s, code)
    \/ \E s \in 1..Len(sockets) : SocketFails(s)
    \/ \E code \in FailureCodes : CloseAfterError(code)
    \/ \E t \in timers : ReconnectTimerFires(t)

SpecReady == Init /\ [][NextReady]_vars

\* ========================================================= createClient
\* the end of createClient in call c: instance = {...}, connect() unless
\* autoConnect is false, return instance
Finish(cs, c, auto) ==
    [cs EXCEPT ![c].pc = "returned", ![c].connected = auto, ![c].result = c]

\* call c of createClient runs up to its first await: it returns instance
\* if there is one; else it makes its own ws, idle timer, window listeners
\* and listener registries, and either waits for the token or, with a
\* token in the store, runs to its end
createClient(c, auto) ==
    /\ createCalls[c].pc = "idle"
    /\ IF instance # 0
       THEN /\ createCalls' = [createCalls EXCEPT ![c].pc = "returned",
                                      ![c].result = instance]
            /\ UNCHANGED <<instance, token>>
       ELSE IF token
       THEN /\ createCalls' = Finish([createCalls EXCEPT ![c].created = TRUE,
                                             ![c].autoConnect = auto],
                               c, auto)
            /\ instance' = c
            /\ UNCHANGED token
       ELSE /\ createCalls' = [createCalls EXCEPT ![c].pc = "fetching",
                                      ![c].created = TRUE,
                                      ![c].autoConnect = auto]
            /\ UNCHANGED <<instance, token>>
    /\ UNCHANGED <<connVars, idleVars, backoffVars, busVars, readyVars>>

\* the token request of call c answers: $token.set, then the rest of
\* createClient
FetchReturns(c) ==
    /\ createCalls[c].pc = "fetching"
    /\ token' = TRUE
    /\ instance' = c
    /\ createCalls' = Finish(createCalls, c, createCalls[c].autoConnect)
    /\ UNCHANGED <<connVars, idleVars, backoffVars, busVars, readyVars>>

\* the token request of call c fails: the await raises and createClient
\* rejects
FetchFails(c) ==
    /\ createCalls[c].pc = "fetching"
    /\ createCalls' = [createCalls EXCEPT ![c].pc = "rejected"]
    /\ UNCHANGED <<instance, token>>
    /\ UNCHANGED <<connVars, idleVars, backoffVars, busVars, readyVars>>

NextCreate ==
    \/ \E c \in Calls, auto \in BOOLEAN : createClient(c, auto)
    \/ \E c \in Calls : FetchReturns(c)
    \/ \E c \in Calls : FetchFails(c)

\* a fresh process: no instance, no call made, a token in the store or not;
\* the other variables describe the client once it is built and are not
\* touched here
InitCreate ==
    /\ instance = 0
    /\ token \in BOOLEAN
    /\ createCalls = [c \in Calls |-> NotCalled]
    /\ listenersMessage = <<>>
    /\ lastFrame = NoFrame
    /\ promises = <<>>
    /\ BackoffInit
    /\ ClientInit

SpecCreate == InitCreate /\ [][NextCreate]_vars

TypeOK ==
    /\ ws \in 0..Len(sockets)
    /\ Len(sockets) <= MaxSockets
    /\ closeTask \in 0..Len(sockets)

\* ================================================================ claims
Increasing(q) == \A i, j \in 1..Len(q) : i < j => q[i] < q[j]

\* the last n entries of q, in order
LastN(q, n) == IF Len(q) <= n THEN q ELSE SubSeq(q, Len(q) - n + 1, Len(q))

SentUnchanged == \A s \in 1..Len(sockets) : sockets'[s].sent = sockets[s].sent

\* C1: the queue never holds more than maxQueueSize messages and keeps them
\* in insertion order; a send() that enqueues leaves the most recent
\* maxQueueSize of the queued messages, the oldest evicted.
C1_QueueBounded ==
    /\ [](Len(queue) <= maxQueueSize /\ Increasing(queue))
    /\ [][(last'.op = "send" /\ last'.rs \notin {"OPEN", "CLOSED"})
            => queue' = LastN(Append(queue, nextMsg), maxQueueSize)]_vars

\* a send() found the queue full and evicted its oldest entry
C1_Witness ==
    /\ last.op = "send"
    /\ Len(last.qBefore) = maxQueueSize
    /\ Len(queue) = maxQueueSize
    /\ queue[1] = last.qBefore[2]
    /\ queue[Len(queue)] = nextMsg - 1

\* C2: send() while the current socket is CLOSED changes neither the queue
\* nor what any socket was sent.
C2_SendClosedDrops ==
    [][(last'.op = "send" /\ last'.rs = "CLOSED")
        => (queue' = queue /\ sockets' = sockets)]_vars

\* a send() on a closed socket with messages still queued
C2_Witness ==
    /\ last.op = "send"
    /\ last.rs = "CLOSED"
    /\ queue # <<>>

\* C3: send() while OPEN writes the message to the current socket and leaves
\* the queue alone; send() with no socket, CONNECTING or CLOSING writes
\* nothing and puts the message at the tail of the queue.
C3_SendWritesOrEnqueues ==
    [][last'.op = "send" =>
        /\ last'.rs = "OPEN" =>
              /\ queue' = queue
              /\ sockets' = [sockets EXCEPT ![ws].sent = Append(@, nextMsg)]
        /\ last'.rs \in {"NONE", "CONNECTING", "CLOSING"} =>
              /\ sockets' = sockets
              /\ queue' # <<>>
              /\ queue'[Len(queue')] = nextMsg
              /\ \E k \in 0..1 :
                    SubSeq(queue', 1, Len(queue') - 1)
                        = SubSeq(queue, 1 + k, Len(queue))]_vars

\* a send() enqueued while CLOSING, after an earlier one was written at once
C3_Witness ==
    /\ last.op = "send"
    /\ last.rs = "CLOSING"
    /\ queue # <<>>
    /\ queue[Len(queue)] = nextMsg - 1
    /\ \E s \in 1..Len(sockets) : sockets[s].sent # <<>>

\* C4: a close event with code 1000 schedules no reconnect timer.
C4_NormalClosureNoReconnect ==
    [][(last'.op = "close" /\ last'.code = NormalClosure)
        => timers' = timers]_vars

\* a close with code 1000 on a socket with attempts left, while the current
\* socket is not CLOSED
C4_Witness ==
    /\ last.op = "close"
    /\ last.code = NormalClosure
    /\ last.rs \in {"CONNECTING", "OPEN", "CLOSING"}
    /\ sockets[last.sock].attempt < maxReconnectAttempts - 1

\* C5: a close event with a code other than 1000 on a socket whose attempt
\* index is below maxReconnectAttempts - 1 leaves exactly one reconnect timer
\* of that socket, for attempt + 1 and the backoff of the attempt.  (Closes
\* that follow a disconnect() are left out: C6 speaks of them.)
C5_AbnormalCloseSchedules ==
    (/\ last.op = "close"
     /\ last.code # NormalClosure
     /\ ~disconnected
     /\ sockets[last.sock].attempt < maxReconnectAttempts - 1)
    => \E t \in timers :
         /\ t.from = last.sock
         /\ t.attempt = sockets[last.sock].attempt + 1
         /\ t.delay = Pow2(sockets[last.sock].attempt) * 1000
         /\ \A u \in timers : u.from = last.sock => u = t

\* C6: once disconnect() was called, only an explicit connect() constructs
\* a socket.
C6_NoReconnectAfterDisconnect ==
    [][(disconnected /\ Len(sockets') > Len(sockets))
        => last'.op = "connect"]_vars

\* C7: an open event whose drain met no failed write empties the queue and
\* writes all of it, in order, to the socket that opened.
C7_DrainWritesAllInOrder ==
    [][(last'.op = "open" /\ ~last'.failed) =>
        /\ queue' = <<>>
        /\ sockets'[last'.sock].sent = sockets[last'.sock].sent \o queue
        /\ \A s \in 1..Len(sockets) :
              s # last'.sock => sockets'[s].sent = sockets[s].sent]_vars

\* an open event drained a queue of two or more messages
C7_Witness ==
    /\ last.op = "open"
    /\ ~last.failed
    /\ Len(last.qBefore) >= 2
    /\ last.wrote = last.qBefore
    /\ queue = <<>>

\* C8: an open event whose drain met a failed write leaves the queue as it
\* was, the failed message first, and writes nothing.
C8_FailedDrainReinserts ==
    [][(last'.op = "open" /\ last'.failed) =>
        /\ queue # <<>>
        /\ queue' = queue
        /\ SentUnchanged]_vars

\* an open event found two or more messages and the current socket not OPEN
C8_Witness ==
    /\ last.op = "open"
    /\ last.failed
    /\ last.rs # "OPEN"
    /\ Len(queue) >= 2

\* connect() constructed a socket with attempt 0 and made it the current one
NewSocketAttempt0 ==
    /\ Len(sockets') = Len(sockets) + 1
    /\ ws' = Len(sockets')
    /\ sockets'[ws'] = [rs |-> "CONNECTING", attempt |-> 0, sent |-> <<>>]
    /\ SubSeq(sockets', 1, Len(sockets)) = sockets

\* C9 as stated: connect() does nothing when OPEN or CONNECTING and in every
\* other state constructs a socket with attempt 0.
C9_ConnectOpensUnlessLive ==
    [][last'.op = "connect" =>
        IF last'.rs \in {"OPEN", "CONNECTING"}
        THEN sockets' = sockets /\ ws' = ws
        ELSE NewSocketAttempt0]_vars

\* C9 amended: connect() does nothing when OPEN, CONNECTING or CLOSING; with
\* no socket or a CLOSED one it constructs a socket with attempt 0.
C9_ConnectOpensWhenNoneOrClosed ==
    [][last'.op = "connect" =>
        IF last'.rs \in {"OPEN", "CONNECTING", "CLOSING"}
        THEN sockets' = sockets /\ ws' = ws
        ELSE NewSocketAttempt0]_vars

\* connect() was called on a CLOSING socket and left it the current one
C9_Witness ==
    /\ last.op = "connect"
    /\ last.rs = "CLOSING"
    /\ ws = last.sock
    /\ sockets[ws].rs = "CLOSING"

\* C10: no idle publication happens while less than an idle window has
\* passed since the last activity event; once a window has passed without
\* one, exactly one publication has happened, to every registered listener
\* once, and no second one follows before the next activity event.
C10_IdleOncePerWindow ==
    /\ clock < stimulusAt + idleTimeoutDuration => idleSince = 0
    /\ clock > stimulusAt + idleTimeoutDuration => idleSince = 1
    /\ idleSince <= 1
    /\ idleSince = 1 => idleTimers = {}

\* activity events restarted the timer, then a window passed and idle was
\* published once to a registered listener, and time went on
C10_Witness ==
    /\ timerSeq >= 3
    /\ stimulusAt > 0
    /\ clock > stimulusAt + idleTimeoutDuration + 1
    /\ idleSince = 1
    /\ idleCalls # <<>>

\* number of sockets that are CONNECTING or OPEN
LiveSockets == {s \in 1..Len(sockets) : sockets[s].rs \in {"CONNECTING", "OPEN"}}

\* C15: a reconnect timer never constructs a socket next to a live one: at
\* most one socket is CONNECTING or OPEN at any moment.
C15_OneLiveSocket == Cardinality(LiveSockets) <= 1

\* C17: no socket and no pending reconnect carries an attempt index above
\* maxReconnectAttempts - 1, and a close event on a socket whose attempt
\* index is maxReconnectAttempts - 1 schedules no reconnect.
C17_AttemptsCapped ==
    /\ [](/\ \A s \in 1..Len(sockets) :
               sockets[s].attempt <= maxReconnectAttempts - 1
          /\ \A t \in timers : t.attempt <= maxReconnectAttempts - 1)
    /\ [][(/\ last'.op = "close"
           /\ sockets[last'.sock].attempt = maxReconnectAttempts - 1)
            => timers' = timers]_vars

\* a socket on its last attempt closed abnormally while the current socket
\* was not CLOSED, and no reconnect is pending
C17_Witness ==
    /\ last.op = "close"
    /\ last.code # NormalClosure
    /\ last.rs \in {"CONNECTING", "OPEN", "CLOSING"}
    /\ sockets[last.sock].attempt = maxReconnectAttempts - 1
    /\ timers = {}

\* the number of places message m is in: entries of the queue and writes to
\* a socket
Places(m) ==
    Cardinality({i \in 1..Len(queue) : queue[i] = m})
  + Cardinality({p \in (1..Len(sockets)) \X (1..MaxMsgs) :
                    /\ p[2] <= Len(sockets[p[1]].sent)
                    /\ sockets[p[1]].sent[p[2]] = m})

\* C18: a message is in at most one place, the queue or the writes of one
\* socket, and there once.
C18_NoDuplicate == \A m \in Messages : Places(m) <= 1

\* a drain failed and put its message back while an earlier message was
\* already written to a socket
C18_Witness ==
    /\ last.op = "open"
    /\ last.failed
    /\ queue # <<>>
    /\ \E s \in 1..Len(sockets) : sockets[s].sent # <<>>
    /\ \A m \in 1..(nextMsg - 1) : Places(m) <= 1

\* C14: reconnectTimeouts has maxReconnectAttempts entries, entry i being
\* 2^i * 1000; with the default of 5 attempts it is 1000, 2000, 4000, 8000,
\* 16000.
C14_BackoffSchedule ==
    built =>
      /\ Len(schedule) = (IF cfgAttempts = 0 THEN 5 ELSE cfgAttempts)
      /\ \A i \in 0..(Len(schedule) - 1) : schedule[i + 1] = (2 ^ i) * 1000
      /\ Len(schedule) = 5
            => schedule = <<1000, 2000, 4000, 8000, 16000>>
      /\ lookedUp.index >= 0
            => lookedUp.delay = (2 ^ lookedUp.index) * 1000

\* the default configuration, its last entry read
C14_Witness ==
    /\ built
    /\ cfgAttempts = 0
    /\ Len(schedule) = 5
    /\ lookedUp = [index |-> 4, delay |-> 16000]

\* ---------------------------------------------------------------- event bus
CallsOf(l) ==
    Cardinality({i \in 1..Len(lastFrame.calls) :
                    lastFrame.calls[i].listener = l})

\* listener l called its own unsubscribe function while it was invoked
SelfUnsubscribed(l) ==
    \E i \in 1..Len(lastFrame.calls) :
        /\ lastFrame.calls[i].listener = l
        /\ lastFrame.calls[i].unsub = l

\* some listener called the unsubscribe function of listener l
UnsubscribedInPass(l) ==
    \E i \in 1..Len(lastFrame.calls) : lastFrame.calls[i].unsub = l

\* the listeners were called in the order of their places in the registry
InRegistrationOrder(calls, start) ==
    \E f \in [1..Len(calls) -> 1..Len(start)] :
        /\ \A i \in 1..Len(calls) : start[f[i]] = calls[i].listener
        /\ \A i, j \in 1..Len(calls) : i < j => f[i] < f[j]

C12_FrameRouting ==
    (/\ lastFrame.op = "message"
     /\ lastFrame.caught = 0
     /\ lastFrame.uncaught = 0
     /\ lastFrame.start # <<>>) =>
        IF JsonParse(lastFrame.frame).ok
        THEN /\ lastFrame.passes = 1
             /\ lastFrame.calls # <<>>
             /\ \A i \in 1..Len(lastFrame.calls) :
                    lastFrame.calls[i].arg =
                        [kind |-> "parsed",
                         value |-> JsonParse(lastFrame.frame).value]
        ELSE IF lastFrame.frame.text
        THEN /\ lastFrame.passes = 1
             /\ lastFrame.calls # <<>>
             /\ \A i \in 1..Len(lastFrame.calls) :
                    lastFrame.calls[i].arg =
                        [kind |-> "wrapper", value |-> lastFrame.frame.raw]
        ELSE /\ lastFrame.passes = 0
             /\ lastFrame.calls = <<>>

\* C16: a publish in which no listener raises invokes the listeners in
\* registration order, and every listener registered at its start whose
\* unsubscribe function was not called during the pass is invoked exactly
\* once for each of its registrations
C16_OthersInvokedOnce ==
    (/\ lastFrame.op = "message"
     /\ lastFrame.passes = 1
     /\ lastFrame.caught = 0
     /\ lastFrame.uncaught = 0) =>
        /\ InRegistrationOrder(lastFrame.calls, lastFrame.start)
        /\ \A l \in Listeners :
            ~UnsubscribedInPass(l) =>
                CallsOf(l) = Count(lastFrame.start, l)

\* C19: for one frame a message listener is invoked at most once for each
\* of its registrations, also when a listener raises, and the wrapper of the
\* raw text is published only when JSON.parse failed
C19_AtMostOncePerFrame ==
    lastFrame.op = "message" =>
        /\ \A l \in Listeners : CallsOf(l) <= Count(lastFrame.start, l)
        /\ (\E i \in 1..Len(lastFrame.calls) :
                lastFrame.calls[i].arg.kind = "wrapper")
            => ~JsonParse(lastFrame.frame).ok

\* -------------------------------------------------------------- isReady
\* socket s gets its open event in this step
OpensNow(s) ==
    /\ s \in 1..Len(sockets)
    /\ sockets[s].rs = "CONNECTING"
    /\ sockets'[s].rs = "OPEN"

\* socket s gets its error event in this step
ErrorNow(s) == s # 0 /\ closeTask = 0 /\ closeTask' = s

C20_SingleClient ==
    /\ \A c, d \in Calls :
        (createCalls[c].pc = "returned" /\ createCalls[d].pc = "returned")
            => createCalls[c].result = createCalls[d].result
    /\ Cardinality({c \in Calls : createCalls[c].created}) <= 1

====
